---- MODULE Spec2Model ----
(***************************************************************************)
(* Model of the document transformation engine of PDF-TOOL                 *)
(* (src/services/pdfService.ts): the page-range parser parsePageRanges,    *)
(* getPageCount, the five transformations mergePDFs, imagesToPDF,          *)
(* splitPDF, compressPDF and pdfToImages, and handleProcess, the caller    *)
(* of the transformations in the application.                             *)
(*                                                                         *)
(* Strings are sequences of one-character strings.  JavaScript numbers are *)
(* records [k, n, d]: k = "fin" is the rational n/d with d a power of ten  *)
(* (kept in lowest such form, so equal numbers are equal records),         *)
(* k = "inf" is +Infinity/-Infinity (sign in n), k = "nan" is NaN.         *)
(* Decimal literals of the model have few digits, so every finite value is *)
(* far below 2^53 and arithmetic on it is exact, as it is on doubles.      *)
(***************************************************************************)
EXTENDS Integers, Sequences, FiniteSets

\* ------------------------------------------------------------------ bounds
MaxTokens == 2
MaxPages == 10
BigPages == 1000
MaxSources == 3
MaxDocPages == 2
MaxEntries == 3
MaxProcessEntries == 1
MaxAlerts == 1

\* the target length of padStart(3, '0')
PadWidth == 3

\* ------------------------------------------------------- strings (helpers)
Digits == <<"0", "1", "2", "3", "4", "5", "6", "7", "8", "9">>

IsDigit(c) == \E i \in 1..10 : Digits[i] = c

DigitVal(c) == (CHOOSE i \in 1..10 : Digits[i] = c) - 1

Range(s) == {s[i] : i \in 1..Len(s)}

RECURSIVE TrimStart(_)
TrimStart(s) ==
  IF s # <<>> /\ Head(s) = " " THEN TrimStart(Tail(s)) ELSE s

RECURSIVE TrimEnd(_)
TrimEnd(s) ==
  IF s # <<>> /\ s[Len(s)] = " " THEN TrimEnd(SubSeq(s, 1, Len(s) - 1)) ELSE s

\* String.prototype.trim
Trim(s) == TrimEnd(TrimStart(s))

\* String.prototype.includes, for a one-character needle
Includes(s, c) == c \in Range(s)

\* String.prototype.split, for a one-character separator: the pieces between
\* the separators, "" included; a string without separator is one piece.
RECURSIVE SplitFrom(_, _, _, _)
SplitFrom(s, sep, i, cur) ==
  IF i > Len(s) THEN <<cur>>
  ELSE IF s[i] = sep THEN <<cur>> \o SplitFrom(s, sep, i + 1, <<>>)
  ELSE SplitFrom(s, sep, i + 1, Append(cur, s[i]))

StrSplit(s, sep) == SplitFrom(s, sep, 1, <<>>)

\* ------------------------------------------------------- numbers (helpers)
NaN == [k |-> "nan", n |-> 0, d |-> 1]

Infinity == [k |-> "inf", n |-> 1, d |-> 1]

NegInfinity == [k |-> "inf", n |-> -1, d |-> 1]

RECURSIVE Fin(_, _)
Fin(n, d) ==
  IF d > 1 /\ n % 10 = 0 THEN Fin(n \div 10, d \div 10)
  ELSE [k |-> "fin", n |-> n, d |-> d]

Int2Num(i) == Fin(i, 1)

isNaN(v) == v.k = "nan"

IsInteger(v) == v.k = "fin" /\ v.d = 1

\* a <= b on numbers; false when either is NaN
NumLe(a, b) ==
  CASE a.k = "nan" \/ b.k = "nan" -> FALSE
    [] a.k = "inf" -> a.n < 0 \/ (b.k = "inf" /\ b.n > 0)
    [] b.k = "inf" -> b.n > 0
    [] OTHER -> a.n * b.d <= b.n * a.d

NumLt(a, b) == NumLe(a, b) /\ a # b

\* a + i and a - i for an integer i
NumAdd(a, i) == IF a.k = "fin" THEN Fin(a.n + i * a.d, a.d) ELSE a

RECURSIVE Pow10(_)
Pow10(e) == IF e = 0 THEN 1 ELSE 10 * Pow10(e - 1)

RECURSIVE DigitsVal(_)
DigitsVal(s) ==
  IF s = <<>> THEN 0 ELSE 10 * DigitsVal(SubSeq(s, 1, Len(s) - 1)) + DigitVal(s[Len(s)])

\* StrUnsignedDecimalLiteral without exponent: digits, digits '.', digits '.'
\* digits, '.' digits, or Infinity; anything else is NaN.
UnsignedLiteral(t) ==
  IF t = <<"I", "n", "f", "i", "n", "i", "t", "y">> THEN Infinity
  ELSE LET parts == StrSplit(t, ".")
           ip == parts[1]
           fp == IF Len(parts) = 2 THEN parts[2] ELSE <<>>
       IN IF /\ Len(parts) <= 2
             /\ Len(ip) + Len(fp) >= 1
             /\ \A c \in Range(ip) \cup Range(fp) : IsDigit(c)
          THEN Fin(DigitsVal(ip \o fp), Pow10(Len(fp)))
          ELSE NaN

NumNeg(v) ==
  CASE v.k = "nan" -> v
    [] v.k = "inf" -> NegInfinity
    [] OTHER -> Fin(0 - v.n, v.d)

\* Number(string): white space is stripped, the empty string is 0, an
\* optional sign precedes the literal.  (Hexadecimal, binary, octal and
\* exponent forms need characters the model's alphabet does not have.)
Number(s) ==
  LET t == Trim(s)
  IN IF t = <<>> THEN Int2Num(0)
     ELSE IF Head(t) = "-" THEN NumNeg(UnsignedLiteral(Tail(t)))
     ELSE IF Head(t) = "+" THEN UnsignedLiteral(Tail(t))
     ELSE UnsignedLiteral(t)

\* Number.prototype.toString for a finite number >= 0
RECURSIVE NatToString(_)
NatToString(i) ==
  IF i < 10 THEN <<Digits[i + 1]>>
  ELSE Append(NatToString(i \div 10), Digits[(i % 10) + 1])

\* Variant of PadStart: the string is not padded
PadStartNone(s, targetLength, c) == s

RECURSIVE PadStart(_, _, _)
PadStart(s, targetLength, c) ==
  IF Len(s) >= targetLength THEN s ELSE PadStart(<<c>> \o s, targetLength, c)

RECURSIVE FracDigits(_, _)
FracDigits(f, d) ==
  IF d = 1 THEN <<>> ELSE FracDigits(f \div 10, d \div 10) \o <<Digits[(f % 10) + 1]>>

NumToString(v) ==
  IF v.d = 1 THEN NatToString(v.n)
  ELSE NatToString(v.n \div v.d) \o <<".">> \o FracDigits(v.n % v.d, v.d)

\* ----------------------------------------------------- parsePageRanges
\* Variant of SelectAll: the indices are 1-based
SelectAllOneBased(n) == [i \in 1..n |-> Int2Num(i)]

\* Array.from({ length: totalPages }, (_, i) => i)
SelectAll(n) == [i \in 1..n |-> Int2Num(i - 1)]

\* Variant of SetAdd: an array push, duplicates are kept
SetAddNoDedup(pages, v) == Append(pages, v)

\* Set.prototype.add on a Set kept in insertion order
SetAdd(pages, v) ==
  IF v \in Range(pages) THEN pages ELSE Append(pages, v)

\* for (let i = start; i <= end; i++) if (i > 0 && i <= totalPages) pages.add(i - 1)
\* for a finite end; the number of iterations is end - start + 1 at most.
RECURSIVE RangeLoop(_, _, _, _)
RangeLoop(i, end, n, pages) ==
  IF NumLe(i, end)
  THEN RangeLoop(NumAdd(i, 1), end, n,
                 IF NumLt(Int2Num(0), i) /\ NumLe(i, Int2Num(n))
                 THEN SetAdd(pages, NumAdd(i, -1)) ELSE pages)
  ELSE pages

\* Variant of RangePart: an endpoint that is not a number is reported by an
\* exception instead of being skipped
RangePartStrict(trimmed, n, acc) ==
  LET nums == [j \in 1..Len(StrSplit(trimmed, "-")) |-> Number(StrSplit(trimmed, "-")[j])]
      start == IF Len(nums) >= 1 THEN nums[1] ELSE NaN
      end == IF Len(nums) >= 2 THEN nums[2] ELSE NaN
  IN IF ~isNaN(start) /\ ~isNaN(end)
     THEN IF end.k = "inf" /\ NumLe(start, end)
          THEN [acc EXCEPT !.outcome = "diverges"]
          ELSE [acc EXCEPT !.pages = RangeLoop(start, end, n, acc.pages)]
     ELSE [acc EXCEPT !.outcome = "Invalid page range"]

\* The range branch: const [start, end] = trimmed.split('-').map(Number).
\* With end = Infinity and start <= end the condition i <= end never turns
\* false (Infinity + 1 = Infinity), so the loop does not terminate.
RangePart(trimmed, n, acc) ==
  LET nums == [j \in 1..Len(StrSplit(trimmed, "-")) |-> Number(StrSplit(trimmed, "-")[j])]
      start == IF Len(nums) >= 1 THEN nums[1] ELSE NaN
      end == IF Len(nums) >= 2 THEN nums[2] ELSE NaN
  IN IF ~isNaN(start) /\ ~isNaN(end)
     THEN IF end.k = "inf" /\ NumLe(start, end)
          THEN [acc EXCEPT !.outcome = "diverges"]
          ELSE [acc EXCEPT !.pages = RangeLoop(start, end, n, acc.pages)]
     ELSE acc

\* Variant of SinglePart: the last page is excluded (page < totalPages)
SinglePartExclusive(trimmed, n, acc) ==
  LET page == Number(trimmed)
  IN IF ~isNaN(page) /\ NumLt(Int2Num(0), page) /\ NumLt(page, Int2Num(n))
     THEN [acc EXCEPT !.pages = SetAdd(acc.pages, NumAdd(page, -1))]
     ELSE acc

\* The single-page branch
SinglePart(trimmed, n, acc) ==
  LET page == Number(trimmed)
  IN IF ~isNaN(page) /\ NumLt(Int2Num(0), page) /\ NumLe(page, Int2Num(n))
     THEN [acc EXCEPT !.pages = SetAdd(acc.pages, NumAdd(page, -1))]
     ELSE acc

\* The body of  for (const part of parts)
ProcessPart(part, n, acc) ==
  LET trimmed == Trim(part)
  IN IF Includes(trimmed, "-") THEN RangePart(trimmed, n, acc)
     ELSE SinglePart(trimmed, n, acc)

RECURSIVE ForParts(_, _, _, _)
ForParts(parts, j, n, acc) ==
  IF j > Len(parts) \/ acc.outcome # "ok" THEN acc
  ELSE ForParts(parts, j + 1, n, ProcessPart(parts[j], n, acc))

\* Array.prototype.sort((a, b) => a - b)
RECURSIVE Insert(_, _)
Insert(sorted, v) ==
  IF sorted = <<>> THEN <<v>>
  ELSE IF NumLt(v, Head(sorted)) THEN <<v>> \o sorted
  ELSE <<Head(sorted)>> \o Insert(Tail(sorted), v)

\* Variant of SortNumeric: the Set's insertion order is returned as it is
SortNone(s) == s

RECURSIVE SortNumeric(_)
SortNumeric(s) ==
  IF s = <<>> THEN <<>> ELSE Insert(SortNumeric(SubSeq(s, 1, Len(s) - 1)), s[Len(s)])

\* parsePageRanges(rangeStr, totalPages).  outcome is "ok" when the call
\* returns value and "diverges" when it never returns; any other outcome is
\* the message of an exception, which the callers let propagate.  The code
\* has no throw and calls nothing that throws on a string.
parsePageRanges(str, n) ==
  IF Trim(str) = <<>>
  THEN [outcome |-> "ok", value |-> SelectAll(n)]
  ELSE LET acc == ForParts(StrSplit(str, ","), 1, n, [outcome |-> "ok", pages |-> <<>>])
       IN [outcome |-> acc.outcome,
           value |-> IF acc.outcome = "ok" THEN SortNumeric(acc.pages) ELSE <<>>]

\* ------------------------------------------------------------ the inputs
\* The tokens the range expressions are built from
Tokens ==
  { <<>>, <<" ">>, <<"1">>, <<" ", "2">>, <<"3", "-", "5">>, <<"8">>,
    <<"5", "-", "2">>, <<"a">>, <<"1", ".", "5">>, <<"1", ".", "5", "-", "3">>,
    <<"1", "-", "I", "n", "f", "i", "n", "i", "t", "y">>, <<"2", "-", "a">>,
    <<"-", "3">>, <<"3", "-">>, <<"1", "-", "2", "-", "3">> }

RECURSIVE Join(_)
Join(ts) ==
  IF ts = <<>> THEN <<>>
  ELSE IF Len(ts) = 1 THEN ts[1]
  ELSE ts[1] \o <<",">> \o Join(Tail(ts))

\* "1,3-5,8" and "2,2,2"
Examples ==
  { <<"1", ",", "3", "-", "5", ",", "8">>, <<"2", ",", "2", ",", "2">> }

Expressions ==
  {Join(ts) : ts \in UNION {[1..m -> Tokens] : m \in 0..MaxTokens}} \cup Examples

PageCounts == (0..MaxPages) \cup {BigPages}

\* A source file: whether its bytes open as a PDF, and its number of pages.
\* Page p of the file is identified by its index p.
Files ==
  {[opens |-> TRUE, numPages |-> c] : c \in PageCounts}
    \cup {[opens |-> FALSE, numPages |-> 0]}

NoBlob == [set |-> FALSE, entries |-> <<>>]

\* The files of a list of sources: a declared media type, whether the bytes
\* open (a PDF parses, an image decodes) and the pages (for an image, the
\* picture) in them.
PdfType == "application/pdf"

Source(type, opens, pages) == [type |-> type, opens |-> opens, pages |-> pages]

\* a PDF of n pages, the pages named after the file
PdfOf(name, n) == Source(PdfType, TRUE, [p \in 1..n |-> <<name, p>>])

PdfSources ==
  { PdfOf("a", MaxDocPages), PdfOf("b", 1), PdfOf("c", 0), Source(PdfType, FALSE, <<>>) }

ImageSources ==
  { Source("image/jpeg", TRUE, <<"photo1">>), Source("image/jpg", TRUE, <<"photo2">>),
    Source("image/png", TRUE, <<"photo3">>), Source("image/gif", TRUE, <<"photo4">>),
    Source("image/jpeg", FALSE, <<>>), PdfOf("b", 1) }

SourceLists(S) == UNION {[1..m -> S] : m \in 0..MaxSources}

NoBytes == [set |-> FALSE, pages |-> <<>>]

\* ------------------------------------------------------ double arithmetic
\* A page dimension is a JavaScript number, an IEEE 754 double: the record
\* [hi, lo, e] is the value (hi * LimbBase + lo) * 2^e, its 53-bit
\* significand held in two limbs of 27 and 26 bits.
LimbBase == 67108864

Double(hi, lo, e) == [hi |-> hi, lo |-> lo, e |-> e]

\* the two-limb number hi * LimbBase + lo with lo brought below LimbBase
Carry(hi, lo) == [hi |-> hi + (lo \div LimbBase), lo |-> lo % LimbBase]

\* the two-limb number m times a small integer c
Times(m, c) == Carry(c * m.hi, c * m.lo)

\* m / p for p = 2 or 4, rounded to nearest, ties to even
ShiftRound(m, p) ==
  LET whole == (m.hi % p) * LimbBase + m.lo
      q == [hi |-> m.hi \div p, lo |-> whole \div p]
      rem == whole % p
  IN IF 2 * rem > p \/ (2 * rem = p /\ q.lo % 2 = 1) THEN Carry(q.hi, q.lo + 1) ELSE q

\* m / c for a small integer c, rounded to nearest, ties to even
DivRound(m, c) ==
  LET whole == (m.hi % c) * LimbBase + m.lo
      q == [hi |-> m.hi \div c, lo |-> whole \div c]
      rem == whole % c
  IN IF 2 * rem > c \/ (2 * rem = c /\ q.lo % 2 = 1) THEN Carry(q.hi, q.lo + 1) ELSE q

\* a rounded significand that reached 2^53 is 2^52 with the next exponent
Normal(m, e) ==
  IF m.hi >= 2 * LimbBase THEN Double(LimbBase, 0, e + 1) ELSE Double(m.hi, m.lo, e)

\* Variant of TimesScale: the scale is taken as the integer 1
TimesScaleOne(x) == x

\* x * scale for scale = 1.5: the exact product 3m * 2^(e-1), rounded to 53 bits
TimesScale(x) ==
  LET p == Times(x, 3)
  IN IF p.hi < 4 * LimbBase
     THEN Normal(ShiftRound(p, 2), x.e)
     ELSE Normal(ShiftRound(p, 4), x.e + 1)

\* y / scale for scale = 1.5: the exact quotient 2m/3 * 2^e, rounded to 53 bits
OverScale(y) ==
  IF Times(y, 2).hi >= 3 * LimbBase
  THEN Normal(DivRound(Times(y, 2), 3), y.e)
  ELSE Normal(DivRound(Times(y, 4), 3), y.e - 1)

\* page.getViewport({ scale }): the page's width and height times the scale
GetViewport(box) == [width |-> TimesScale(box.width), height |-> TimesScale(box.height)]

\* [viewport.width / scale, viewport.height / scale]
NewPageSize(viewport) == [width |-> OverScale(viewport.width), height |-> OverScale(viewport.height)]

\* Page sizes in points: US Letter 612 x 792, A4 as 595.28 x 841.89, and a
\* custom page of 100.1 x 200.2
LetterBox == [width |-> Double(80216064, 0, -43), height |-> Double(103809024, 0, -43)]

A4Box == [width |-> Double(78024540, 10737418, -43), height |-> Double(110348206, 5368709, -43)]

CustomBox == [width |-> Double(104962457, 40265318, -46), height |-> Double(104962457, 40265318, -45)]

PageBoxes == {LetterBox, A4Box, CustomBox}

\* The sources of compressPDF: every page of a file has the file's box;
\* the longer files are all of Letter size
CompressFiles ==
  {[opens |-> TRUE, numPages |-> c, box |-> b] : c \in 0..MaxDocPages, b \in PageBoxes}
    \cup {[opens |-> TRUE, numPages |-> c, box |-> LetterBox] : c \in 0..MaxPages}
    \cup {[opens |-> FALSE, numPages |-> 0, box |-> LetterBox]}

Transformations == {"merge", "imagesToPDF", "split", "compress", "pdfToImages"}

\* -------------------------------------------------------------- the state
\* op             the function invoked: "parse", "getPageCount" or a transformation
\* rangeStr       the range expression
\* file           the source file of a single-file function
\* totalPages     parsePageRanges' argument; the page count a transformation read
\* pc             "idle" (handleProcess not started), "start", "loop",
\*                "done" (returned), "failed" (threw), "hung"
\* indicesToKeep  the value parsePageRanges returned
\* k              position of the loop over pages or files
\* zipCalls       the names given to zip.file, in call order
\* zip            the archive: a sequence of entries [name, data]
\* blob           the archive the operation resolved with
\* error          the message of the error thrown, "" when none
\* files          the list of sources of mergePDFs and imagesToPDF
\* doc            the pages of the document being built
\* bytes          the document bytes the operation resolved with
\* count          the number getPageCount resolved with, -1 before
\* inflight       the pages whose awaited steps are pending, with the step
\* caller         "direct", or "handleProcess" for a run started in the application
\* isProcessing, result, alerts   handleProcess' state and the alerts shown
VARIABLES op, rangeStr, file, totalPages, pc, indicesToKeep, k, zipCalls, zip, blob, error

VARIABLES files, doc, bytes, count, inflight

VARIABLES caller, isProcessing, result, alerts

\* Two invocations of service functions running interleaved:
\* invocations    for each, its arguments `in` and its locals: pc, the items
\*                its loop iterates over, the position k, the reference obj
\*                to the document or archive it builds, and the value out it
\*                resolved with
\* objects        the heap: the contents of every document and archive
\*                created so far, indexed by reference
VARIABLES invocations, objects

pairVars == <<invocations, objects>>

\* The application (App and FileList); its list of entries is `files`, its
\* other state isProcessing, result and alerts above, and
\* view             AppView: "HOME" or "TOOL"
\* activeTool       the ToolConfig shown, NoTool for null
\* pending          the calls of processDroppedFiles that await their page
\*                  counts, each with the tool it was called under and the
\*                  entries it made
\* running          the calls of handleProcess not yet finished, each with
\*                  its tool and the state of its transformation
\* draggedItemIndex FileList's state, -1 for null
VARIABLES view, activeTool, pending, running, draggedItemIndex

appVars == <<view, activeTool, pending, running, draggedItemIndex>>

docVars == <<files, doc, bytes, count>>

uiVars == <<caller, isProcessing, result, alerts>>

restVars == <<docVars, uiVars>>

vars == <<op, rangeStr, file, totalPages, pc, indicesToKeep, k, zipCalls, zip, blob, error,
          inflight, restVars, pairVars, appVars>>

soloVars == <<op, rangeStr, file, totalPages, pc, indicesToKeep, k, zipCalls, zip, blob, error,
              inflight, restVars>>

NoResult == [success |-> FALSE, data |-> NoBytes, archive |-> NoBlob]

NoTool == [id |-> "none", accept |-> "", multiple |-> FALSE]

\* the application's state where the application is not modelled
NoApp ==
  /\ view = "HOME" /\ activeTool = NoTool /\ pending = {} /\ running = {}
  /\ draggedItemIndex = -1

Init ==
  /\ op \in {"parse", "getPageCount"} \cup Transformations
  /\ caller \in (IF op \in Transformations THEN {"direct", "handleProcess"} ELSE {"direct"})
  /\ rangeStr \in (IF op \in {"parse", "split"} THEN Expressions ELSE {<<>>})
  /\ file \in (CASE op \in {"parse", "merge", "imagesToPDF"} -> {[opens |-> TRUE, numPages |-> 0]}
                 [] op = "split" /\ caller = "direct" -> Files
                 [] op = "compress" -> CompressFiles
                 [] OTHER -> {f \in Files : f.numPages <= MaxPages})
  /\ totalPages \in (IF op = "parse" THEN PageCounts ELSE {0})
  /\ files \in (CASE op = "merge" -> SourceLists(PdfSources)
                  [] op = "imagesToPDF" -> SourceLists(ImageSources)
                  [] OTHER -> {<<>>})
  /\ pc = (IF caller = "handleProcess" THEN "idle" ELSE "start")
  /\ indicesToKeep = <<>>
  /\ k = 0
  /\ zipCalls = <<>>
  /\ zip = <<>>
  /\ blob = NoBlob
  /\ error = ""
  /\ doc = <<>>
  /\ bytes = NoBytes
  /\ count = -1
  /\ inflight = {}
  /\ isProcessing = FALSE
  /\ result = NoResult
  /\ alerts = <<>>
  /\ invocations = <<>>
  /\ objects = <<>>
  /\ NoApp

\* ------------------------------------------------- a call of parsePageRanges
ParseCall ==
  /\ op = "parse" /\ pc = "start"
  /\ LET r == parsePageRanges(rangeStr, totalPages)
     IN /\ pc' = (CASE r.outcome = "ok" -> "done"
                    [] r.outcome = "diverges" -> "hung"
                    [] OTHER -> "failed")
        /\ error' = (IF r.outcome \in {"ok", "diverges"} THEN "" ELSE r.outcome)
        /\ indicesToKeep' = r.value
  /\ UNCHANGED <<op, rangeStr, file, totalPages, k, zipCalls, zip, blob>>
  /\ UNCHANGED <<inflight, restVars>>
  /\ UNCHANGED <<pairVars, appVars>>

\* ---------------------------------------------------------------- JSZip
\* zip.file(name, data): an entry of that name is replaced, else one is added
ZipFile(z, name, data) ==
  IF \E i \in 1..Len(z) : z[i].name = name
  THEN [i \in 1..Len(z) |-> IF z[i].name = name THEN [name |-> name, data |-> data] ELSE z[i]]
  ELSE Append(z, [name |-> name, data |-> data])

\* ------------------------------------------------------------- splitPDF
\* (pageIndex + 1).toString().padStart(3, '0')
PageNum(v) == PadStart(NumToString(v), PadWidth, "0")

\* Variant of PdfEntryName: the entry is numbered by the 0-based index
PdfEntryNameZeroBased(pageIndex) ==
  <<"p", "a", "g", "e", "-">> \o PageNum(pageIndex) \o <<".", "p", "d", "f">>

\* `page-${pageNum}.pdf`
PdfEntryName(pageIndex) ==
  <<"p", "a", "g", "e", "-">> \o PageNum(NumAdd(pageIndex, 1)) \o <<".", "p", "d", "f">>

\* newPdf.copyPages(sourcePdf, [pageIndex]) finds the page in the source's
\* page array; an index that addresses no element makes it throw.
CanCopy(f, pageIndex) ==
  IsInteger(pageIndex) /\ 0 <= pageIndex.n /\ pageIndex.n < f.numPages

\* file.arrayBuffer(), PDFDocument.load, getPageCount, parsePageRanges, the
\* check of the selection and new JSZip()
SplitLoad ==
  /\ op = "split" /\ pc = "start"
  /\ IF ~file.opens
     THEN /\ pc' = "failed"
          /\ error' = "Failed to parse PDF document"
          /\ UNCHANGED <<totalPages, indicesToKeep, k>>
     ELSE LET r == parsePageRanges(rangeStr, file.numPages)
          IN /\ totalPages' = file.numPages
             /\ indicesToKeep' = r.value
             /\ IF r.outcome = "diverges"
                THEN pc' = "hung" /\ UNCHANGED <<k, error>>
                ELSE IF r.outcome # "ok"
                THEN pc' = "failed" /\ error' = r.outcome /\ UNCHANGED k
                ELSE IF Len(r.value) = 0
                THEN pc' = "failed" /\ error' = "No valid pages selected" /\ UNCHANGED k
                ELSE pc' = "loop" /\ k' = 1 /\ UNCHANGED error
  /\ UNCHANGED <<op, rangeStr, file, zipCalls, zip, blob>>
  /\ UNCHANGED <<inflight, restVars>>
  /\ UNCHANGED <<pairVars, appVars>>

\* One iteration of  for (const pageIndex of indicesToKeep)
SplitPage ==
  /\ op = "split" /\ pc = "loop" /\ k <= Len(indicesToKeep)
  /\ LET pageIndex == indicesToKeep[k]
     IN IF CanCopy(file, pageIndex)
        THEN /\ zipCalls' = Append(zipCalls, PdfEntryName(pageIndex))
             /\ zip' = ZipFile(zip, PdfEntryName(pageIndex), [type |-> "pdf", pages |-> <<pageIndex.n>>])
             /\ k' = k + 1
             /\ UNCHANGED <<pc, error>>
        ELSE /\ pc' = "failed"
             /\ error' = "Cannot read properties of undefined"
             /\ UNCHANGED <<zipCalls, zip, k>>
  /\ UNCHANGED <<op, rangeStr, file, totalPages, indicesToKeep, blob>>
  /\ UNCHANGED <<inflight, restVars>>
  /\ UNCHANGED <<pairVars, appVars>>

\* zip.generateAsync({ type: 'blob' })
SplitGenerate ==
  /\ op = "split" /\ pc = "loop" /\ k > Len(indicesToKeep)
  /\ pc' = "done"
  /\ blob' = [set |-> TRUE, entries |-> zip]
  /\ UNCHANGED <<op, rangeStr, file, totalPages, indicesToKeep, k, zipCalls, zip, error>>
  /\ UNCHANGED <<inflight, restVars>>
  /\ UNCHANGED <<pairVars, appVars>>

\* ---------------------------------------------------------- pdfToImages
\* `page-${pageNum}.jpg`
JpgEntryName(i) ==
  <<"p", "a", "g", "e", "-">> \o PadStart(NatToString(i), PadWidth, "0") \o <<".", "j", "p", "g">>

\* file.arrayBuffer(), pdfjs.getDocument(...).promise, new JSZip()
ImagesLoad ==
  /\ op = "pdfToImages" /\ pc = "start"
  /\ IF ~file.opens
     THEN pc' = "failed" /\ error' = "Invalid PDF structure" /\ UNCHANGED <<totalPages, k>>
     ELSE pc' = "loop" /\ totalPages' = file.numPages /\ k' = 1 /\ UNCHANGED error
  /\ UNCHANGED <<op, rangeStr, file, indicesToKeep, zipCalls, zip, blob>>
  /\ UNCHANGED <<inflight, restVars>>
  /\ UNCHANGED <<pairVars, appVars>>

\* Variant of LoopMayBegin: the iterations are started without awaiting the
\* pending ones (pages mapped to promises)
LoopMayBeginAlways(fl) == TRUE

\* Every step of an iteration of the page loop is awaited inside the loop
\* body, so the next iteration begins when nothing of an earlier one is pending.
LoopMayBegin(fl) == fl = {}

\* In the page loops of pdfToImages and compressPDF, k is the page the next
\* iteration is for; inflight holds the page of the running iteration and
\* the awaited step it is at.
\* pdf.getPage(i), the canvas and its 2d context, which may be null (the
\* iteration then adds nothing); page.render(...) is started.
ImagesPageBegin ==
  /\ op = "pdfToImages" /\ pc = "loop" /\ k <= totalPages /\ LoopMayBegin(inflight)
  /\ \E context \in BOOLEAN :
       inflight' = (IF context THEN inflight \cup {[page |-> k, step |-> "render"]} ELSE inflight)
  /\ k' = k + 1
  /\ UNCHANGED <<op, rangeStr, file, totalPages, pc, indicesToKeep, zipCalls, zip, blob, error>>
  /\ UNCHANGED restVars
  /\ UNCHANGED <<pairVars, appVars>>

\* page.render(...).promise settles; on success canvas.toBlob is started
ImagesPageRendered ==
  /\ op = "pdfToImages" /\ pc = "loop"
  /\ \E r \in inflight :
       /\ r.step = "render"
       /\ \/ /\ inflight' = (inflight \ {r}) \cup {[page |-> r.page, step |-> "encode"]}
             /\ UNCHANGED <<pc, error>>
          \/ /\ inflight' = inflight \ {r}
             /\ pc' = "failed"
             /\ error' = "Rendering failed"
  /\ UNCHANGED <<op, rangeStr, file, totalPages, indicesToKeep, k, zipCalls, zip, blob>>
  /\ UNCHANGED restVars
  /\ UNCHANGED <<pairVars, appVars>>

\* toBlob calls back, with the JPEG or with null; zip.file for a JPEG
ImagesPageEncoded ==
  /\ op = "pdfToImages" /\ pc = "loop"
  /\ \E r \in inflight :
       /\ r.step = "encode"
       /\ inflight' = inflight \ {r}
       /\ \E jpeg \in BOOLEAN :
            IF jpeg
            THEN /\ zipCalls' = Append(zipCalls, JpgEntryName(r.page))
                 /\ zip' = ZipFile(zip, JpgEntryName(r.page), [type |-> "jpg", pages |-> <<r.page - 1>>])
            ELSE UNCHANGED <<zipCalls, zip>>
  /\ UNCHANGED <<op, rangeStr, file, totalPages, pc, indicesToKeep, k, blob, error>>
  /\ UNCHANGED restVars
  /\ UNCHANGED <<pairVars, appVars>>

ImagesGenerate ==
  /\ op = "pdfToImages" /\ pc = "loop" /\ k > totalPages /\ inflight = {}
  /\ pc' = "done"
  /\ blob' = [set |-> TRUE, entries |-> zip]
  /\ UNCHANGED <<op, rangeStr, file, totalPages, indicesToKeep, k, zipCalls, zip, error>>
  /\ UNCHANGED <<inflight, restVars>>
  /\ UNCHANGED <<pairVars, appVars>>

\* ---------------------------------------------------------- compressPDF
\* file.arrayBuffer(), pdfjs.getDocument(...).promise, PDFDocument.create()
CompressLoad ==
  /\ op = "compress" /\ pc = "start"
  /\ IF ~file.opens
     THEN pc' = "failed" /\ error' = "Invalid PDF structure" /\ UNCHANGED <<totalPages, k>>
     ELSE pc' = "loop" /\ totalPages' = file.numPages /\ k' = 1 /\ UNCHANGED error
  /\ doc' = <<>>
  /\ UNCHANGED <<op, rangeStr, file, indicesToKeep, zipCalls, zip, blob>>
  /\ UNCHANGED <<files, bytes, count, inflight, uiVars>>
  /\ UNCHANGED <<pairVars, appVars>>

\* pdf.getPage(i), the canvas and its context; if (!context) continue;
\* else page.render(...) is started
CompressPageBegin ==
  /\ op = "compress" /\ pc = "loop" /\ k <= totalPages /\ LoopMayBegin(inflight)
  /\ \E context \in BOOLEAN :
       inflight' = (IF context THEN inflight \cup {[page |-> k, step |-> "render"]} ELSE inflight)
  /\ k' = k + 1
  /\ UNCHANGED <<op, rangeStr, file, totalPages, pc, indicesToKeep, zipCalls, zip, blob, error>>
  /\ UNCHANGED restVars
  /\ UNCHANGED <<pairVars, appVars>>

\* page.render(...).promise settles; on success canvas.toDataURL and the
\* fetch of the data URL are started
CompressPageRendered ==
  /\ op = "compress" /\ pc = "loop"
  /\ \E r \in inflight :
       /\ r.step = "render"
       /\ \/ /\ inflight' = (inflight \ {r}) \cup {[page |-> r.page, step |-> "encode"]}
             /\ UNCHANGED <<pc, error>>
          \/ /\ inflight' = inflight \ {r}
             /\ pc' = "failed"
             /\ error' = "Rendering failed"
  /\ UNCHANGED <<op, rangeStr, file, totalPages, indicesToKeep, k, zipCalls, zip, blob>>
  /\ UNCHANGED restVars
  /\ UNCHANGED <<pairVars, appVars>>

\* the image bytes arrive; newPdfDoc.embedJpg is started
CompressPageEncoded ==
  /\ op = "compress" /\ pc = "loop"
  /\ \E r \in inflight :
       /\ r.step = "encode"
       /\ inflight' = (inflight \ {r}) \cup {[page |-> r.page, step |-> "embed"]}
  /\ UNCHANGED <<op, rangeStr, file, totalPages, pc, indicesToKeep, k, zipCalls, zip, blob, error>>
  /\ UNCHANGED restVars
  /\ UNCHANGED <<pairVars, appVars>>

\* embedJpg settles; on success newPdfDoc.addPage and drawImage
CompressPageEmbedded ==
  /\ op = "compress" /\ pc = "loop"
  /\ \E r \in inflight :
       /\ r.step = "embed"
       /\ inflight' = inflight \ {r}
       /\ \/ /\ doc' = Append(doc, <<"raster", r.page - 1, NewPageSize(GetViewport(file.box))>>)
             /\ UNCHANGED <<pc, error>>
          \/ /\ pc' = "failed"
             /\ error' = "Image could not be embedded"
             /\ UNCHANGED doc
  /\ UNCHANGED <<op, rangeStr, file, totalPages, indicesToKeep, k, zipCalls, zip, blob>>
  /\ UNCHANGED <<files, bytes, count, uiVars>>
  /\ UNCHANGED <<pairVars, appVars>>

\* return await newPdfDoc.save()
CompressSave ==
  /\ op = "compress" /\ pc = "loop" /\ k > totalPages /\ inflight = {}
  /\ pc' = "done"
  /\ bytes' = [set |-> TRUE, pages |-> doc]
  /\ UNCHANGED <<op, rangeStr, file, totalPages, indicesToKeep, k, zipCalls, zip, blob, error>>
  /\ UNCHANGED <<files, doc, count, inflight, uiVars>>
  /\ UNCHANGED <<pairVars, appVars>>

\* ------------------------------------------------------------ mergePDFs
\* Variant of PageIndices: the indices start at 1, the first page is left out
PageIndicesFromOne(src) == [i \in 1..(Len(src.pages) - 1) |-> i]

\* pdf.getPageIndices()
PageIndices(src) == [i \in 1..Len(src.pages) |-> i - 1]

\* mergedPdf.copyPages(pdf, indices): copies of the pages at the indices
CopyPages(src, indices) == [i \in 1..Len(indices) |-> src.pages[indices[i] + 1]]

\* copiedPages.forEach((page) => mergedPdf.addPage(page))
AddPages(d, pages) == d \o pages

\* Variant of MergeStep: a source that does not open is skipped
MergeStepSkipsUnreadable(d, src) ==
  IF ~src.opens THEN [failed |-> FALSE, doc |-> d]
  ELSE [failed |-> FALSE, doc |-> AddPages(d, CopyPages(src, PageIndices(src)))]

\* Variant of MergeStep: the copied pages are added last page first
MergeStepReversed(d, src) ==
  IF ~src.opens THEN [failed |-> TRUE, doc |-> d]
  ELSE [failed |-> FALSE,
        doc |-> AddPages(d, [i \in 1..Len(src.pages) |-> src.pages[Len(src.pages) + 1 - i]])]

\* The body of  for (const pdfFile of files): PDFDocument.load throws on
\* bytes that are no PDF, else all pages of the source are appended.
MergeStep(d, src) ==
  IF ~src.opens THEN [failed |-> TRUE, doc |-> d]
  ELSE [failed |-> FALSE, doc |-> AddPages(d, CopyPages(src, PageIndices(src)))]

\* mergePDFs as a function of its list: the loop body applied to the sources
\* in order, from the empty document, up to the first source that fails
RECURSIVE MergeFrom(_, _)
MergeFrom(d, fs) ==
  IF fs = <<>> THEN [failed |-> FALSE, doc |-> d]
  ELSE IF MergeStep(d, Head(fs)).failed THEN [failed |-> TRUE, doc |-> d]
  ELSE MergeFrom(MergeStep(d, Head(fs)).doc, Tail(fs))

MergeAll(fs) == MergeFrom(<<>>, fs)

\* const mergedPdf = await PDFDocument.create()
MergeCreate ==
  /\ op = "merge" /\ pc = "start"
  /\ pc' = "loop" /\ k' = 1 /\ doc' = <<>>
  /\ UNCHANGED <<op, rangeStr, file, totalPages, indicesToKeep, zipCalls, zip, blob, error>>
  /\ UNCHANGED <<files, bytes, count, inflight, uiVars>>
  /\ UNCHANGED <<pairVars, appVars>>

\* One iteration of  for (const pdfFile of files)
MergeFile ==
  /\ op = "merge" /\ pc = "loop" /\ k <= Len(files)
  /\ LET r == MergeStep(doc, files[k])
     IN IF r.failed
        THEN pc' = "failed" /\ error' = "Failed to parse PDF document" /\ UNCHANGED <<k, doc>>
        ELSE doc' = r.doc /\ k' = k + 1 /\ UNCHANGED <<pc, error>>
  /\ UNCHANGED <<op, rangeStr, file, totalPages, indicesToKeep, zipCalls, zip, blob>>
  /\ UNCHANGED <<files, bytes, count, inflight, uiVars>>
  /\ UNCHANGED <<pairVars, appVars>>

\* return await mergedPdf.save()
MergeSave ==
  /\ op = "merge" /\ pc = "loop" /\ k > Len(files)
  /\ pc' = "done"
  /\ bytes' = [set |-> TRUE, pages |-> doc]
  /\ UNCHANGED <<op, rangeStr, file, totalPages, indicesToKeep, k, zipCalls, zip, blob, error>>
  /\ UNCHANGED <<files, doc, count, inflight, uiVars>>
  /\ UNCHANGED <<pairVars, appVars>>

\* ---------------------------------------------------------- imagesToPDF
\* Variant of ImageKind: only 'image/jpeg' is taken as JPEG
ImageKindJpegOnly(type) ==
  CASE type = "image/jpeg" -> "jpg"
    [] type = "image/png" -> "png"
    [] OTHER -> "skip"

\* which embedder the declared media type selects
ImageKind(type) ==
  CASE type \in {"image/jpeg", "image/jpg"} -> "jpg"
    [] type = "image/png" -> "png"
    [] OTHER -> "skip"

\* The body of  for (const imgFile of files): continue for another media
\* type; embedJpg / embedPng throw on bytes that do not decode; else a page
\* of the image's size showing the image is added.
EmbedStep(d, src) ==
  IF ImageKind(src.type) = "skip" THEN [failed |-> FALSE, doc |-> d]
  ELSE IF ~src.opens THEN [failed |-> TRUE, doc |-> d]
  ELSE [failed |-> FALSE, doc |-> Append(d, <<"image", src.pages[1]>>)]

\* const pdfDoc = await PDFDocument.create()
EmbedCreate ==
  /\ op = "imagesToPDF" /\ pc = "start"
  /\ pc' = "loop" /\ k' = 1 /\ doc' = <<>>
  /\ UNCHANGED <<op, rangeStr, file, totalPages, indicesToKeep, zipCalls, zip, blob, error>>
  /\ UNCHANGED <<files, bytes, count, inflight, uiVars>>
  /\ UNCHANGED <<pairVars, appVars>>

\* One iteration of  for (const imgFile of files)
EmbedFile ==
  /\ op = "imagesToPDF" /\ pc = "loop" /\ k <= Len(files)
  /\ LET r == EmbedStep(doc, files[k])
     IN IF r.failed
        THEN pc' = "failed" /\ error' = "Image could not be embedded" /\ UNCHANGED <<k, doc>>
        ELSE doc' = r.doc /\ k' = k + 1 /\ UNCHANGED <<pc, error>>
  /\ UNCHANGED <<op, rangeStr, file, totalPages, indicesToKeep, zipCalls, zip, blob>>
  /\ UNCHANGED <<files, bytes, count, inflight, uiVars>>
  /\ UNCHANGED <<pairVars, appVars>>

\* return await pdfDoc.save()
EmbedSave ==
  /\ op = "imagesToPDF" /\ pc = "loop" /\ k > Len(files)
  /\ pc' = "done"
  /\ bytes' = [set |-> TRUE, pages |-> doc]
  /\ UNCHANGED <<op, rangeStr, file, totalPages, indicesToKeep, k, zipCalls, zip, blob, error>>
  /\ UNCHANGED <<files, doc, count, inflight, uiVars>>
  /\ UNCHANGED <<pairVars, appVars>>

\* --------------------------------------------------------- getPageCount
\* Variant of GetPageCountOutcome: the error of a failed load is thrown on
GetPageCountRethrows(f) ==
  IF f.opens THEN [threw |-> FALSE, value |-> f.numPages]
  ELSE [threw |-> TRUE, value |-> 0]

\* try { arrayBuffer; load; return pdf.getPageCount() } catch { return 0 }:
\* a rejected arrayBuffer() and a failed load reach the same catch.
GetPageCountOutcome(f) ==
  IF f.opens THEN [threw |-> FALSE, value |-> f.numPages]
  ELSE [threw |-> FALSE, value |-> 0]

GetPageCountCall ==
  /\ op = "getPageCount" /\ pc = "start"
  /\ LET r == GetPageCountOutcome(file)
     IN IF r.threw
        THEN pc' = "failed" /\ error' = "Failed to parse PDF document" /\ UNCHANGED count
        ELSE pc' = "done" /\ count' = r.value /\ UNCHANGED error
  /\ UNCHANGED <<op, rangeStr, file, totalPages, indicesToKeep, k, zipCalls, zip, blob>>
  /\ UNCHANGED <<files, doc, bytes, inflight, uiVars>>
  /\ UNCHANGED <<pairVars, appVars>>

\* Variant of HandleProcessSettle: the result is stored outside the try block
HandleProcessSettleStoresAlways ==
  /\ caller = "handleProcess" /\ isProcessing /\ pc \in {"done", "failed"}
  /\ result' = [success |-> TRUE, data |-> bytes, archive |-> [set |-> TRUE, entries |-> zip]]
  /\ alerts' = (IF pc = "done" THEN alerts ELSE Append(alerts, error))
  /\ isProcessing' = FALSE
  /\ UNCHANGED <<op, rangeStr, file, totalPages, pc, indicesToKeep, k, zipCalls, zip, blob, error>>
  /\ UNCHANGED <<docVars, inflight, caller>>
  /\ UNCHANGED <<pairVars, appVars>>

\* -------------------------------------------------------- handleProcess
\* if (!activeTool || files.length === 0) return; for the single-file
\* tools files[0].file is `file`.
HasFiles == op \in {"merge", "imagesToPDF"} => Len(files) # 0

\* setIsProcessing(true); setResult(null); the transformation is called
HandleProcessStart ==
  /\ caller = "handleProcess" /\ pc = "idle" /\ HasFiles
  /\ isProcessing' = TRUE
  /\ result' = NoResult
  /\ pc' = "start"
  /\ UNCHANGED <<op, rangeStr, file, totalPages, indicesToKeep, k, zipCalls, zip, blob, error>>
  /\ UNCHANGED <<docVars, inflight, caller, alerts>>
  /\ UNCHANGED <<pairVars, appVars>>

\* The awaited transformation settled: setResult({ success: true, ... }) in
\* the try block, or alert(error.message || ...) in the catch block; then
\* finally setIsProcessing(false).
HandleProcessSettle ==
  /\ caller = "handleProcess" /\ isProcessing /\ pc \in {"done", "failed"}
  /\ IF pc = "done"
     THEN /\ result' = [success |-> TRUE, data |-> bytes, archive |-> blob]
          /\ UNCHANGED alerts
     ELSE /\ alerts' = Append(alerts, IF error # "" THEN error
                                      ELSE "An error occurred while processing your files.")
          /\ UNCHANGED result
  /\ isProcessing' = FALSE
  /\ UNCHANGED <<op, rangeStr, file, totalPages, pc, indicesToKeep, k, zipCalls, zip, blob, error>>
  /\ UNCHANGED <<docVars, inflight, caller>>
  /\ UNCHANGED <<pairVars, appVars>>

Next ==
  \/ ParseCall
  \/ SplitLoad
  \/ SplitPage
  \/ SplitGenerate
  \/ ImagesLoad
  \/ ImagesPageBegin
  \/ ImagesPageRendered
  \/ ImagesPageEncoded
  \/ ImagesGenerate
  \/ MergeCreate
  \/ MergeFile
  \/ MergeSave
  \/ EmbedCreate
  \/ EmbedFile
  \/ EmbedSave
  \/ CompressLoad
  \/ CompressPageBegin
  \/ CompressPageRendered
  \/ CompressPageEncoded
  \/ CompressPageEmbedded
  \/ CompressSave
  \/ GetPageCountCall
  \/ HandleProcessStart
  \/ HandleProcessSettle

Spec == Init /\ [][Next]_vars

\* ------------------------------------------- two interleaved invocations
\* The arguments of an invocation of a transformation.  For compressPDF and
\* pdfToImages `env` gives, page by page, what the browser does in that
\* invocation: "ok", "skipped" (no 2d context, or toBlob gives null) or
\* "throws" (a rejected render or embed).
PairSourceLists(S) == UNION {[1..m -> S] : m \in 0..(MaxSources - 1)}

Invocation(o, fs, f, str, env) ==
  [op |-> o, files |-> fs, file |-> f, rangeStr |-> str, env |-> env]

PageOutcomes == {"ok", "skipped", "throws"}

PairInputs ==
  {Invocation("merge", fs, [opens |-> TRUE, numPages |-> 0], <<>>, <<>>) :
     fs \in PairSourceLists({PdfOf("a", MaxDocPages), PdfOf("b", 1), Source(PdfType, FALSE, <<>>)})}
  \cup
  {Invocation("imagesToPDF", fs, [opens |-> TRUE, numPages |-> 0], <<>>, <<>>) :
     fs \in PairSourceLists({Source("image/jpeg", TRUE, <<"photo1">>),
                             Source("image/gif", TRUE, <<"photo4">>),
                             Source("image/png", FALSE, <<>>)})}
  \cup
  {Invocation("split", <<>>, f, str, <<>>) :
     f \in {[opens |-> TRUE, numPages |-> MaxDocPages], [opens |-> FALSE, numPages |-> 0]},
     str \in {<<>>, <<"1">>, <<"8">>, <<"1", ".", "5">>}}
  \cup
  {Invocation(o, <<>>, [opens |-> TRUE, numPages |-> MaxDocPages], <<>>, env) :
     o \in {"compress", "pdfToImages"}, env \in [1..MaxDocPages -> PageOutcomes]}
  \cup
  {Invocation(o, <<>>, [opens |-> FALSE, numPages |-> 0], <<>>, <<>>) :
     o \in {"compress", "pdfToImages"}}

\* Variant of NewObject: one object made at module load serves every call
NewObjectShared(heap) ==
  [heap |-> IF heap = <<>> THEN <<<<>>>> ELSE heap, ref |-> 1]

\* `await PDFDocument.create()` and `new JSZip()` in a function body: each
\* evaluation makes a new empty object, held in a const local to the call
NewObject(heap) ==
  [heap |-> Append(heap, <<>>), ref |-> Len(heap) + 1]

\* The body of  for (const pageIndex of indicesToKeep)  as a function of the
\* archive: the page is copied and stored, or copyPages throws
SplitStep(f, z, pageIndex) ==
  IF CanCopy(f, pageIndex)
  THEN [failed |-> FALSE,
        doc |-> ZipFile(z, PdfEntryName(pageIndex), [type |-> "pdf", pages |-> <<pageIndex.n>>])]
  ELSE [failed |-> TRUE, doc |-> z]

\* The body of  for (let i = 1; i <= pdf.numPages; i++)  of compressPDF and
\* pdfToImages as a function of the document or archive, for a given outcome
\* of the page's canvas, render and encoding
RasterStep(o, d, item) ==
  CASE item.outcome = "throws" -> [failed |-> TRUE, doc |-> d]
    [] item.outcome = "skipped" -> [failed |-> FALSE, doc |-> d]
    [] OTHER ->
         [failed |-> FALSE,
          doc |-> IF o = "compress"
                  THEN Append(d, <<"raster", item.page - 1>>)
                  ELSE ZipFile(d, JpgEntryName(item.page),
                               [type |-> "jpg", pages |-> <<item.page - 1>>])]

\* What a function does before it creates its object: the items its loop
\* will iterate over, or the failure of the load and of splitPDF's
\* selection check
Prepare(in) ==
  IF in.op \in {"merge", "imagesToPDF"} THEN [failed |-> FALSE, items |-> in.files]
  ELSE IF ~in.file.opens THEN [failed |-> TRUE, items |-> <<>>]
  ELSE IF in.op \in {"compress", "pdfToImages"}
  THEN [failed |-> FALSE,
        items |-> [i \in 1..in.file.numPages |-> [page |-> i, outcome |-> in.env[i]]]]
  ELSE LET r == parsePageRanges(in.rangeStr, in.file.numPages)
       IN IF r.outcome # "ok" \/ Len(r.value) = 0
          THEN [failed |-> TRUE, items |-> <<>>]
          ELSE [failed |-> FALSE, items |-> r.value]

\* One iteration of the function's loop on the object d
StepOn(in, d, item) ==
  CASE in.op = "merge" -> MergeStep(d, item)
    [] in.op = "imagesToPDF" -> EmbedStep(d, item)
    [] in.op = "split" -> SplitStep(in.file, d, item)
    [] OTHER -> RasterStep(in.op, d, item)

NotStarted(in) ==
  [in |-> in, pc |-> "start", items |-> <<>>, k |-> 0, obj |-> 0, out |-> <<>>]

InitPair ==
  /\ op = "pair" /\ caller = "direct" /\ rangeStr = <<>>
  /\ file = [opens |-> TRUE, numPages |-> 0]
  /\ totalPages = 0 /\ files = <<>> /\ pc = "idle" /\ indicesToKeep = <<>> /\ k = 0
  /\ zipCalls = <<>> /\ zip = <<>> /\ blob = NoBlob /\ error = ""
  /\ doc = <<>> /\ bytes = NoBytes /\ count = -1 /\ inflight = {}
  /\ isProcessing = FALSE /\ result = NoResult /\ alerts = <<>>
  /\ invocations \in {<<NotStarted(a), NotStarted(b)>> : a, b \in PairInputs}
  /\ objects = <<>>
  /\ NoApp

\* Invocation i runs to its first await: load and checks, then its object
PairBegin(i) ==
  /\ invocations[i].pc = "start"
  /\ LET p == Prepare(invocations[i].in)
         a == NewObject(objects)
     IN IF p.failed
        THEN /\ invocations' = [invocations EXCEPT ![i].pc = "failed"]
             /\ UNCHANGED objects
        ELSE /\ invocations' = [invocations EXCEPT ![i].pc = "loop", ![i].items = p.items,
                                                   ![i].k = 1, ![i].obj = a.ref]
             /\ objects' = a.heap
  /\ UNCHANGED <<soloVars, appVars>>

\* Invocation i runs one iteration of its loop
PairStep(i) ==
  /\ invocations[i].pc = "loop" /\ invocations[i].k <= Len(invocations[i].items)
  /\ LET c == invocations[i]
         r == StepOn(c.in, objects[c.obj], c.items[c.k])
     IN IF r.failed
        THEN /\ invocations' = [invocations EXCEPT ![i].pc = "failed"]
             /\ UNCHANGED objects
        ELSE /\ invocations' = [invocations EXCEPT ![i].k = c.k + 1]
             /\ objects' = [objects EXCEPT ![c.obj] = r.doc]
  /\ UNCHANGED <<soloVars, appVars>>

\* Invocation i saves or generates its object and resolves
PairReturn(i) ==
  /\ invocations[i].pc = "loop" /\ invocations[i].k > Len(invocations[i].items)
  /\ invocations' = [invocations EXCEPT ![i].pc = "done", ![i].out = objects[invocations[i].obj]]
  /\ UNCHANGED objects
  /\ UNCHANGED <<soloVars, appVars>>

NextPair ==
  \/ \E i \in 1..2 : PairBegin(i)
  \/ \E i \in 1..2 : PairStep(i)
  \/ \E i \in 1..2 : PairReturn(i)

SpecPair == InitPair /\ [][NextPair]_vars

\* ------------------------------------------------------ the application
ImageAccept == "image/jpeg, image/png, image/jpg"

\* const TOOLS: id, accept and multiple of each ToolConfig
TOOLS ==
  << [id |-> "MERGE", accept |-> PdfType, multiple |-> TRUE],
     [id |-> "SPLIT", accept |-> PdfType, multiple |-> FALSE],
     [id |-> "COMPRESS", accept |-> PdfType, multiple |-> FALSE],
     [id |-> "JPG_TO_PDF", accept |-> ImageAccept, multiple |-> TRUE],
     [id |-> "PDF_TO_JPG", accept |-> PdfType, multiple |-> FALSE] >>

\* activeTool.accept.includes('image')
AcceptIncludesImage(accept) == accept = ImageAccept

\* f.type.startsWith('image/')
StartsWithImage(type) == type \in {"image/jpeg", "image/jpg", "image/png", "image/gif"}

\* Files on the user's disk, and the lists a drop or a selection brings
UserFile(name, type) == [name |-> name, type |-> type]

DropLists ==
  { <<UserFile("a.pdf", PdfType)>>,
    <<UserFile("b.pdf", PdfType)>>,
    <<UserFile("c.png", "image/png"), UserFile("a.pdf", PdfType)>> }

\* a.name.localeCompare(b.name) < 0, for the names of the user's files
CollationRank(name) ==
  CASE name = "a.pdf" -> 1 [] name = "b.pdf" -> 2 [] name = "c.png" -> 3 [] OTHER -> 0

LocaleCompareLt(a, b) == CollationRank(a) < CollationRank(b)

\* An entry of the list: PDFFile with its id and its File (name and type)
Entry(id, f) == [id |-> id, name |-> f.name, type |-> f.type]

\* what reading an element outside the array gives
UndefinedEntry == [id |-> -1, name |-> "undefined", type |-> "undefined"]

\* the ids of the entries in the list and of those still awaiting their
\* page counts
IdsIn(list) == {list[i].id : i \in 1..Len(list)}

LiveIds == IdsIn(files) \cup UNION {IdsIn(p.entries) : p \in pending}

\* uuidv4(): an id that no entry has; the i-th of the ids not in use
RECURSIVE NewId(_, _)
NewId(used, i) ==
  LET least == CHOOSE n \in 1..(Cardinality(used) + 1) : n \notin used /\ \A m \in 1..(n - 1) : m \in used
  IN IF i = 1 THEN least ELSE NewId(used \cup {least}, i - 1)

\* Rendering the list reads file.id of every element: an undefined element
\* throws in render and React unmounts the application
Crashed == \E i \in 1..Len(files) : files[i] = UndefinedEntry

\* fileList.filter(f => ...): the files the tool accepts
ValidFiles(tool, list) ==
  SelectSeq(list, LAMBDA f : IF AcceptIncludesImage(tool.accept)
                             THEN StartsWithImage(f.type)
                             ELSE f.type = PdfType)

\* prev.findIndex(f => f.id === id), 0-based, -1 when there is none
FindIndex(list, id) ==
  IF \E i \in 1..Len(list) : list[i].id = id
  THEN (CHOOSE i \in 1..Len(list) :
          list[i].id = id /\ \A j \in 1..(i - 1) : list[j].id # id) - 1
  ELSE -1

\* the list with the elements at the 0-based positions i and j exchanged
Swapped(list, i, j) ==
  [x \in 1..Len(list) |-> IF x = i + 1 THEN list[j + 1] ELSE IF x = j + 1 THEN list[i + 1] ELSE list[x]]

\* the updater of moveFile
Moved(list, id, direction) ==
  LET index == FindIndex(list, id)
  IN IF index = -1 THEN list
     ELSE IF direction = "up" /\ index > 0
          THEN Swapped(list, index, index - 1)
     ELSE IF direction = "down" /\ index < Len(list) - 1
          THEN Swapped(list, index, index + 1)
     ELSE list

\* array.splice(start, 1): nothing is removed when start is past the end
SpliceOut(list, start) ==
  IF start < Len(list)
  THEN SubSeq(list, 1, start) \o SubSeq(list, start + 2, Len(list))
  ELSE list

\* array.splice(start, 0, item): past the end, the item is appended
SpliceIn(list, start, item) ==
  IF start < Len(list)
  THEN SubSeq(list, 1, start) \o <<item>> \o SubSeq(list, start + 1, Len(list))
  ELSE Append(list, item)

\* newFiles of FileList's handleDragOver
Reordered(list, dragged, index) ==
  LET draggedItem == IF dragged < Len(list) THEN list[dragged + 1] ELSE UndefinedEntry
  IN SpliceIn(SpliceOut(list, dragged), index, draggedItem)

\* [...prev].sort((a, b) => a.name.localeCompare(b.name)): a stable sort
RECURSIVE InsertByName(_, _)
InsertByName(sorted, e) ==
  IF sorted = <<>> THEN <<e>>
  ELSE IF LocaleCompareLt(e.name, Head(sorted).name) THEN <<e>> \o sorted
  ELSE <<Head(sorted)>> \o InsertByName(Tail(sorted), e)

RECURSIVE SortedByName(_)
SortedByName(list) ==
  IF list = <<>> THEN <<>>
  ELSE InsertByName(SortedByName(SubSeq(list, 1, Len(list) - 1)), list[Len(list)])

\* what the page shows: the tool page, the upload area, the file list
ToolShown == ~Crashed /\ view = "TOOL" /\ activeTool # NoTool

UploadShown == ToolShown /\ result = NoResult /\ (Len(files) = 0 \/ activeTool.multiple)

FileListShown == ToolShown /\ result = NoResult /\ Len(files) > 0

\* the user makes no other gesture while dragging an entry
Dragging == draggedItemIndex # -1

\* Variant of ButtonEnabled: isLoading does not disable the button
ButtonEnabledAlways(isLoading) == TRUE

\* Button: disabled={disabled || isLoading}
ButtonEnabled(isLoading) == ~isLoading

appFrozen ==
  <<op, rangeStr, file, totalPages, pc, indicesToKeep, k, zipCalls, zip, blob, error,
    inflight, doc, bytes, count, caller, pairVars>>

\* the entries the user may have in the list and in lookups at one time:
\* MaxEntries where the list is reordered, MaxProcessEntries where it is
\* processed
Capacity == IF op = "process" THEN MaxProcessEntries ELSE MaxEntries

\* the application as mounted: the home view, no tool, no files
AppStart ==
  /\ caller = "direct" /\ rangeStr = <<>>
  /\ file = [opens |-> TRUE, numPages |-> 0]
  /\ totalPages = 0 /\ files = <<>> /\ pc = "idle" /\ indicesToKeep = <<>> /\ k = 0
  /\ zipCalls = <<>> /\ zip = <<>> /\ blob = NoBlob /\ error = ""
  /\ doc = <<>> /\ bytes = NoBytes /\ count = -1 /\ inflight = {}
  /\ isProcessing = FALSE /\ result = NoResult /\ alerts = <<>>
  /\ invocations = <<>> /\ objects = <<>>
  /\ NoApp

InitApp == op = "app" /\ AppStart

InitProcess == op = "process" /\ AppStart

\* openTool, from a ToolCard of the home view
OpenTool ==
  /\ ~Crashed /\ view = "HOME"
  /\ \E t \in 1..Len(TOOLS) :
       /\ activeTool' = TOOLS[t]
       /\ view' = "TOOL"
       /\ files' = <<>>
       /\ result' = NoResult
  /\ draggedItemIndex' = -1
  /\ UNCHANGED <<isProcessing, alerts, pending, running, appFrozen>>

\* goBack, the button of the tool page
GoBack ==
  /\ ToolShown /\ ~Dragging
  /\ view' = "HOME" /\ activeTool' = NoTool /\ files' = <<>> /\ result' = NoResult
  /\ UNCHANGED <<isProcessing, alerts, pending, running, draggedItemIndex, appFrozen>>

\* the header's onClick: setView(AppView.HOME) and nothing else
HeaderHome ==
  /\ ~Crashed /\ view = "TOOL" /\ ~Dragging
  /\ view' = "HOME"
  /\ UNCHANGED <<activeTool, files, result, isProcessing, alerts, pending, running,
                 draggedItemIndex, appFrozen>>

\* handleDrop / handleFileInput: processDroppedFiles up to its await.  The
\* page counts of PDF files are read asynchronously; a list of images settles
\* before any other event is handled, so its setFiles is part of this step.
DropFiles ==
  /\ UploadShown /\ ~Dragging
  /\ \E fileList \in DropLists :
       LET valid == ValidFiles(activeTool, fileList)
           kept == IF ~activeTool.multiple THEN SubSeq(valid, 1, 1) ELSE valid
           cleared == IF ~activeTool.multiple THEN <<>> ELSE files
           processedFiles == [i \in 1..Len(kept) |-> Entry(NewId(LiveIds, i), kept[i])]
       IN /\ Len(valid) # 0
          /\ Cardinality(LiveIds) + Len(kept) <= Capacity
          /\ IF \E i \in 1..Len(kept) : kept[i].type = PdfType
             THEN /\ files' = cleared
                  /\ pending' = pending \cup {[tool |-> activeTool, entries |-> processedFiles]}
             ELSE /\ files' = (IF activeTool.multiple THEN cleared \o processedFiles
                                                      ELSE processedFiles)
                  /\ UNCHANGED pending
  /\ UNCHANGED <<view, activeTool, result, isProcessing, alerts, running, draggedItemIndex,
                 appFrozen>>

\* processDroppedFiles after its await: setFiles with the tool of the call
LookupDone ==
  /\ \E p \in pending :
       /\ files' = (IF p.tool.multiple THEN files \o p.entries ELSE p.entries)
       /\ pending' = pending \ {p}
  /\ UNCHANGED <<view, activeTool, result, isProcessing, alerts, running, draggedItemIndex, appFrozen>>

\* removeFile
RemoveFile ==
  /\ FileListShown /\ ~Dragging
  /\ \E i \in 1..Len(files) :
       files' = SelectSeq(files, LAMBDA f : f.id # files[i].id)
  /\ UNCHANGED <<view, activeTool, result, isProcessing, alerts, pending, running,
                 draggedItemIndex, appFrozen>>

\* moveFile, with the id of an entry or an id no entry has
MoveFile ==
  /\ FileListShown /\ ~Dragging
  /\ \E id \in IdsIn(files) \cup {0}, direction \in {"up", "down"} :
       files' = Moved(files, id, direction)
  /\ UNCHANGED <<view, activeTool, result, isProcessing, alerts, pending, running,
                 draggedItemIndex, appFrozen>>

\* handleSortAlphabetically, offered for MERGE
SortAlphabetically ==
  /\ FileListShown /\ ~Dragging /\ activeTool.id = "MERGE"
  /\ files' = SortedByName(files)
  /\ UNCHANGED <<view, activeTool, result, isProcessing, alerts, pending, running,
                 draggedItemIndex, appFrozen>>

\* FileList's handleDragStart; entries are draggable for MERGE
DragStart ==
  /\ FileListShown /\ ~Dragging /\ activeTool.id = "MERGE"
  /\ \E index \in 0..(Len(files) - 1) : draggedItemIndex' = index
  /\ UNCHANGED <<view, activeTool, files, result, isProcessing, alerts, pending, running, appFrozen>>

\* FileList's handleDragOver over the entry at index, and handleReorder
DragOver ==
  /\ FileListShown /\ Dragging
  /\ \E index \in 0..(Len(files) - 1) :
       IF draggedItemIndex = index \/ activeTool.id # "MERGE"
       THEN UNCHANGED <<files, draggedItemIndex>>
       ELSE /\ files' = Reordered(files, draggedItemIndex, index)
            /\ draggedItemIndex' = index
  /\ UNCHANGED <<view, activeTool, result, isProcessing, alerts, pending, running, appFrozen>>

\* FileList's handleDragEnd
DragEnd ==
  /\ Dragging
  /\ draggedItemIndex' = -1
  /\ UNCHANGED <<view, activeTool, files, result, isProcessing, alerts, pending, running, appFrozen>>

\* The Back button of the result panel: setResult(null); setFiles([])
ResultBack ==
  /\ ToolShown /\ result # NoResult
  /\ result' = NoResult /\ files' = <<>>
  /\ UNCHANGED <<view, activeTool, isProcessing, alerts, pending, running, draggedItemIndex, appFrozen>>

\* alert(message), as the application's log of alerts records it: the first
\* MaxAlerts alerts are kept
Alerted(log, message) == IF Len(log) < MaxAlerts THEN Append(log, message) ELSE log

\* handleProcess up to its await, from the process button
ProcessStart ==
  /\ FileListShown /\ ~Dragging /\ ButtonEnabled(isProcessing)
  /\ isProcessing' = TRUE
  /\ result' = NoResult
  /\ running' = running \cup {[tool |-> activeTool.id, state |-> "pending"]}
  /\ UNCHANGED <<view, activeTool, files, alerts, pending, draggedItemIndex, appFrozen>>

\* the transformation's promise resolves or rejects
TransformationSettles ==
  /\ \E r \in running :
       /\ r.state = "pending"
       /\ \E outcome \in {"resolved", "rejected"} :
            running' = (running \ {r}) \cup {[r EXCEPT !.state = outcome]}
  /\ UNCHANGED <<view, activeTool, files, result, isProcessing, alerts, pending,
                 draggedItemIndex, appFrozen>>

\* Variant of ProcessContinue: setIsProcessing(false) at the end of the try
\* block instead of in finally
ProcessContinueNoFinally ==
  /\ \E r \in running :
       /\ r.state # "pending"
       /\ running' = running \ {r}
       /\ IF r.state = "resolved"
          THEN /\ result' = [success |-> TRUE, tool |-> r.tool]
               /\ draggedItemIndex' = -1
               /\ isProcessing' = FALSE
               /\ UNCHANGED alerts
          ELSE /\ alerts' = Alerted(alerts, "An error occurred while processing your files.")
               /\ UNCHANGED <<result, draggedItemIndex, isProcessing>>
  /\ UNCHANGED <<view, activeTool, files, pending, appFrozen>>

\* handleProcess after its await: setResult, or the catch block's alert,
\* then finally setIsProcessing(false).  A result unmounts the file list.
ProcessContinue ==
  /\ \E r \in running :
       /\ r.state # "pending"
       /\ running' = running \ {r}
       /\ IF r.state = "resolved"
          THEN /\ result' = [success |-> TRUE, tool |-> r.tool]
               /\ draggedItemIndex' = -1
               /\ UNCHANGED alerts
          ELSE /\ alerts' = Alerted(alerts, "An error occurred while processing your files.")
               /\ UNCHANGED <<result, draggedItemIndex>>
  /\ isProcessing' = FALSE
  /\ UNCHANGED <<view, activeTool, files, pending, appFrozen>>

NextApp ==
  \/ OpenTool
  \/ GoBack
  \/ HeaderHome
  \/ DropFiles
  \/ LookupDone
  \/ RemoveFile
  \/ MoveFile
  \/ SortAlphabetically
  \/ DragStart
  \/ DragOver
  \/ DragEnd

\* the file list of the tool page: drops, lookups, removals and reordering
SpecApp == InitApp /\ [][NextApp]_vars

NextProcess ==
  \/ OpenTool
  \/ GoBack
  \/ HeaderHome
  \/ DropFiles
  \/ LookupDone
  \/ RemoveFile
  \/ ResultBack
  \/ ProcessStart
  \/ TransformationSettles
  \/ ProcessContinue

\* the process button of the tool page: drops, lookups, removals and
\* handleProcess
SpecProcess == InitProcess /\ [][NextProcess]_vars

\* the continuation of a settled promise always runs
SpecProcessLive == SpecProcess /\ WF_vars(ProcessContinue)

\* =============================================================== claims
\* the comma-separated tokens of the range expression
Parts == StrSplit(rangeStr, ",")

Blank(str) == Trim(str) = <<>>

Without(s, j) == SubSeq(s, 1, j - 1) \o SubSeq(s, j + 1, Len(s))

ParseReturned == op = "parse" /\ pc = "done"

\* C1: for every totalPages >= 0 and every expression that is empty or only
\* white space, parsePageRanges returns exactly 0, 1, ..., totalPages-1 (the
\* empty sequence when totalPages = 0).
C1_SelectAllDefault ==
  (op = "parse" /\ pc # "start" /\ Blank(rangeStr)) =>
    /\ pc = "done"
    /\ Len(indicesToKeep) = totalPages
    /\ \A i \in 1..totalPages : indicesToKeep[i] = [k |-> "fin", n |-> i - 1, d |-> 1]

C1_Witness ==
  /\ ParseReturned /\ rangeStr = <<" ">> /\ totalPages = 3
  /\ indicesToKeep = <<Int2Num(0), Int2Num(1), Int2Num(2)>>

StrictlyAscending(seq) ==
  \A i \in 1..(Len(seq) - 1) : NumLt(seq[i], seq[i + 1])

TokenOrders(m) == {f \in [1..m -> 1..m] : \A i, j \in 1..m : f[i] = f[j] => i = j}

\* the call on the same tokens in another order, and with one token repeated,
\* returns what the call on rangeStr returned
SameForReorderedAndRepeated ==
  /\ \A f \in TokenOrders(Len(Parts)) :
       parsePageRanges(Join([i \in 1..Len(Parts) |-> Parts[f[i]]]), totalPages)
         = [outcome |-> "ok", value |-> indicesToKeep]
  /\ \A j \in 1..Len(Parts) :
       parsePageRanges(Join(Append(Parts, Parts[j])), totalPages)
         = [outcome |-> "ok", value |-> indicesToKeep]

\* C2 as stated: for every non-empty expression the returned sequence is
\* strictly ascending without duplicates, and is the same for every
\* permutation of the tokens and for a repeated token.
C2_Original ==
  (ParseReturned /\ rangeStr # <<>>) =>
    StrictlyAscending(indicesToKeep) /\ SameForReorderedAndRepeated

\* C2 amended: the same, for every expression that is not empty and not
\* made of white space only (the select-all case of C1 is left out).
C2_AscendingOrderInsensitive ==
  (ParseReturned /\ ~Blank(rangeStr)) =>
    StrictlyAscending(indicesToKeep) /\ SameForReorderedAndRepeated

C2_Witness ==
  /\ ParseReturned /\ rangeStr = <<"3", "-", "5", ",", "1">> /\ totalPages = 6
  /\ indicesToKeep = <<Int2Num(0), Int2Num(2), Int2Num(3), Int2Num(4)>>

\* C3: every index parsePageRanges returns is an integer idx with
\* 0 <= idx < totalPages, so every selection Split works on addresses
\* existing pages of the document.
C3_IndicesAreValidPages ==
  ((op = "parse" /\ pc = "done") \/ (op = "split" /\ pc = "loop")) =>
    \A i \in 1..Len(indicesToKeep) :
      /\ IsInteger(indicesToKeep[i])
      /\ 0 <= indicesToKeep[i].n /\ indicesToKeep[i].n < totalPages

\* What the tokens other than the j-th select: the call on the expression
\* without that token (nothing when no token or only white space is left,
\* which as an expression of its own would mean select-all).
OthersOf(j) ==
  LET rest == Join(Without(Parts, j))
  IN IF Blank(rest) THEN [outcome |-> "ok", value |-> <<>>]
     ELSE parsePageRanges(rest, totalPages)

\* The call returned, and returned what the other tokens select plus contrib
ContributesExactly(j, contrib) ==
  /\ pc # "failed"
  /\ (pc = "done") <=> (OthersOf(j).outcome = "ok")
  /\ pc = "done" => Range(indicesToKeep) = Range(OthersOf(j).value) \cup contrib

\* a single integer N
IsIntegerToken(t) == Trim(t) # <<>> /\ \A c \in Range(Trim(t)) : IsDigit(c)

\* a single token that is no numeral
IsNonNumericToken(t) ==
  /\ ~Includes(t, "-")
  /\ \E c \in Range(Trim(t)) : ~IsDigit(c) /\ c # "."

IntegerContribution(t) ==
  LET N == DigitsVal(Trim(t))
  IN IF IsIntegerToken(t) /\ 1 <= N /\ N <= totalPages
     THEN {[k |-> "fin", n |-> N - 1, d |-> 1]} ELSE {}

\* C4: a token that is a single integer N contributes index N-1 if
\* 1 <= N <= totalPages and nothing otherwise; an out-of-range or non-numeric
\* single token causes no error and does not change what the other tokens
\* contribute.
C4_SingleTokenContribution ==
  (op = "parse" /\ pc # "start" /\ ~Blank(rangeStr)) =>
    \A j \in 1..Len(Parts) :
      (IsIntegerToken(Parts[j]) \/ IsNonNumericToken(Parts[j])) =>
        ContributesExactly(j, IntegerContribution(Parts[j]))

C4_Witness ==
  /\ ParseReturned /\ rangeStr = <<"8", ",", " ", "2">> /\ totalPages = 5
  /\ indicesToKeep = <<Int2Num(1)>>

\* a range token A-B whose two endpoints are numerals
IsRangeToken(t) ==
  LET ends == StrSplit(Trim(t), "-")
  IN /\ Len(ends) = 2
     /\ \A e \in 1..2 : ~Blank(ends[e]) /\ ~isNaN(Number(ends[e]))

RangeContribution(t) ==
  LET ends == StrSplit(Trim(t), "-")
  IN {[k |-> "fin", n |-> i - 1, d |-> 1] :
        i \in {x \in 1..totalPages : /\ NumLe(Number(ends[1]), Int2Num(x))
                                     /\ NumLe(Int2Num(x), Number(ends[2]))}}

\* C5: a range token A-B with both endpoints numeric contributes exactly the
\* indices i-1 for every integer i with A <= i <= B and 1 <= i <= totalPages;
\* a reversed range contributes no index and raises no error.
C5_RangeTokenContribution ==
  (op = "parse" /\ pc # "start" /\ ~Blank(rangeStr)) =>
    \A j \in 1..Len(Parts) :
      IsRangeToken(Parts[j]) => ContributesExactly(j, RangeContribution(Parts[j]))

NoValidPages == "No valid pages selected"

\* C7: splitPDF on a source that opens fails with "No valid pages selected"
\* if and only if the range expression is non-empty and its parsed selection
\* is empty; with an empty range expression it never fails with that error,
\* whatever the page count.
C7_NoValidPagesIffNonEmptyRange ==
  (op = "split" /\ file.opens /\ pc \in {"loop", "done", "failed"}) =>
    /\ (error = NoValidPages) <=> (rangeStr # <<>> /\ indicesToKeep = <<>>)
    /\ rangeStr = <<>> => error # NoValidPages

\* n written with at least three digits, zeros in front
ZeroPadded3(n) ==
  IF n < 10 THEN <<"0", "0">> \o NatToString(n)
  ELSE IF n < 100 THEN <<"0">> \o NatToString(n)
  ELSE NatToString(n)

SplitName(p) == <<"p", "a", "g", "e", "-">> \o ZeroPadded3(p + 1) \o <<".", "p", "d", "f">>

SplitSucceeded == op = "split" /\ pc = "done" /\ blob.set

EntriesNamed(name) == {x \in 1..Len(blob.entries) : blob.entries[x].name = name}

\* C8: when splitPDF succeeds with selection S on an N-page document, the
\* archive has exactly |S| entries, one single-page document per index p of
\* S, named page-{p+1 zero-padded to 3 digits}.pdf and holding source page p;
\* with an empty range these are the N entries page-001.pdf .. page-{N}.pdf.
C8_SplitArchiveContents ==
  SplitSucceeded =>
    /\ Len(blob.entries) = Len(indicesToKeep)
    /\ \A i \in 1..Len(indicesToKeep) :
         /\ Cardinality(EntriesNamed(SplitName(indicesToKeep[i].n))) = 1
         /\ \A x \in EntriesNamed(SplitName(indicesToKeep[i].n)) :
              blob.entries[x].data = [type |-> "pdf", pages |-> <<indicesToKeep[i].n>>]
    /\ Blank(rangeStr) =>
         /\ Len(blob.entries) = file.numPages
         /\ {blob.entries[x].name : x \in 1..Len(blob.entries)}
              = {SplitName(p) : p \in 0..(file.numPages - 1)}

C8_Witness ==
  /\ SplitSucceeded /\ rangeStr = <<"1", ",", "3", "-", "5", ",", "8">>
  /\ file.numPages = 6 /\ Len(blob.entries) = 4

\* the code unit of a character of an entry name
CharCode(c) ==
  CASE c = "-" -> 45 [] c = "." -> 46
    [] IsDigit(c) -> 48 + DigitVal(c)
    [] c = "a" -> 97 [] c = "d" -> 100 [] c = "e" -> 101 [] c = "f" -> 102
    [] c = "g" -> 103 [] c = "j" -> 106 [] c = "p" -> 112

\* a < b in the order of strings
RECURSIVE StrLt(_, _)
StrLt(a, b) ==
  IF b = <<>> THEN FALSE
  ELSE IF a = <<>> THEN TRUE
  ELSE IF Head(a) # Head(b) THEN CharCode(Head(a)) < CharCode(Head(b))
  ELSE StrLt(Tail(a), Tail(b))

\* the position of entry x when the entries are taken in ascending name order
NameRank(x) ==
  Cardinality({y \in 1..Len(blob.entries) : StrLt(blob.entries[y].name, blob.entries[x].name)}) + 1

\* the entries in ascending name order, concatenated, are pages 1..N in order
NameOrderReconstructs ==
  /\ Len(blob.entries) = file.numPages
  /\ \A x \in 1..Len(blob.entries) : blob.entries[x].data.pages = <<NameRank(x) - 1>>

\* C9 as stated: for Split with an empty range on an N-page document, the
\* entries taken in ascending order of name and concatenated reproduce the
\* source's pages in their original order.
C9_Original ==
  (SplitSucceeded /\ Blank(rangeStr)) => NameOrderReconstructs

\* the largest page number that padStart(3, '0') writes with three digits
MaxPadded == Pow10(PadWidth) - 1

\* C9 amended: the same, for documents of at most 999 pages.
C9_NameOrderReconstructsUpTo999 ==
  (SplitSucceeded /\ Blank(rangeStr) /\ file.numPages <= MaxPadded) => NameOrderReconstructs

C9_Witness ==
  /\ SplitSucceeded /\ rangeStr = <<>> /\ file.numPages = 10
  /\ Len(blob.entries) = 10

\* C10: within one invocation of splitPDF or pdfToImages no two calls that
\* add an entry use the same name.  Every prefix of the calls is the calls
\* of an earlier state, so it is stated of the latest call against all the
\* calls before it.
C10_EntryNamesUnique ==
  Len(zipCalls) >= 1 =>
    \A i \in 1..(Len(zipCalls) - 1) : zipCalls[i] # zipCalls[Len(zipCalls)]

C10_Witness ==
  /\ SplitSucceeded /\ rangeStr = <<"2", ",", "2", ",", "2">> /\ file.numPages = 5
  /\ Len(zipCalls) = 1

RECURSIVE Concatenation(_)
Concatenation(fs) ==
  IF fs = <<>> THEN <<>> ELSE Head(fs).pages \o Concatenation(Tail(fs))

RECURSIVE SumOfPageCounts(_)
SumOfPageCounts(fs) ==
  IF fs = <<>> THEN 0 ELSE Len(Head(fs).pages) + SumOfPageCounts(Tail(fs))

MergeSucceeded == op = "merge" /\ pc = "done" /\ bytes.set

\* C11: when mergePDFs succeeds on F1..Fk, the output's pages are all pages
\* of F1 in order, then all of F2, ..., then Fk; the page count is the sum of
\* the sources' page counts; no page is dropped, duplicated or reordered.
C11_MergeConcatenates ==
  (op = "merge" /\ pc = "done") =>
    /\ bytes.set
    /\ bytes.pages = Concatenation(files)
    /\ Len(bytes.pages) = SumOfPageCounts(files)

C11_Witness ==
  /\ MergeSucceeded /\ Len(files) = 2
  /\ Len(files[1].pages) >= 2 /\ Len(files[2].pages) = 1
  /\ bytes.pages = files[1].pages \o files[2].pages

\* the document that opening the bytes of a successful merge gives
Reopened(r) == Source(PdfType, TRUE, r.doc)

SomeSourceFailsToOpen == \E j \in 1..Len(files) : ~files[j].opens

\* C13: if any source of the list fails to open, the whole merge fails: no
\* document bytes are returned, whatever the position of the failing source
\* and however many earlier sources were already appended.
C13_MergeFailsAsAWhole ==
  (op = "merge" /\ SomeSourceFailsToOpen) =>
    /\ pc # "done" /\ ~bytes.set
    /\ pc = "loop" => \A j \in 1..(k - 1) : files[j].opens
    /\ (pc = "loop" /\ k <= Len(files) /\ ~files[k].opens) => ENABLED MergeFile

C13_Witness ==
  /\ op = "merge" /\ pc = "failed" /\ Len(files) = 3 /\ k = 3
  /\ Len(doc) >= 2 /\ ~files[3].opens /\ ~bytes.set

\* C14: whenever compressPDF succeeds, the output's page count equals the
\* input's, for every outcome of the per-page rasterization steps.
C14_CompressKeepsPageCount ==
  (op = "compress" /\ pc = "done") => (bytes.set /\ Len(bytes.pages) = file.numPages)

JpgName(i) == <<"p", "a", "g", "e", "-">> \o ZeroPadded3(i) \o <<".", "j", "p", "g">>

\* C15: whenever pdfToImages succeeds on an N-page source, the archive has
\* exactly N entries, one per page i in 1..N, named page-{i zero-padded to 3
\* digits}.jpg.
C15_ImagesOnePerPage ==
  (op = "pdfToImages" /\ pc = "done") =>
    /\ blob.set
    /\ Len(blob.entries) = file.numPages
    /\ {blob.entries[x].name : x \in 1..Len(blob.entries)} = {JpgName(i) : i \in 1..file.numPages}

IsJpegOrPng(src) == src.type \in {"image/jpeg", "image/jpg", "image/png"}

RECURSIVE PagesOfSupported(_)
PagesOfSupported(fs) ==
  IF fs = <<>> THEN <<>>
  ELSE (IF IsJpegOrPng(Head(fs)) THEN <<<<"image", Head(fs).pages[1]>>>> ELSE <<>>)
         \o PagesOfSupported(Tail(fs))

C17_GetPageCountNeverThrows ==
  /\ (op = "getPageCount" /\ pc # "start") =>
       /\ pc = "done" /\ error = ""
       /\ count = (IF file.opens THEN file.numPages ELSE 0)
  /\ op \in Transformations => count = -1
  /\ (op \in {"split", "compress", "pdfToImages"} /\ ~file.opens /\ pc \notin {"idle", "start"}) =>
       (pc = "failed" /\ error # NoValidPages)

C17_Witness ==
  op = "getPageCount" /\ pc = "done" /\ ~file.opens /\ count = 0

\* C18: when a transformation started by handleProcess fails at any step,
\* the remaining work of that invocation is abandoned, no result (document
\* or partial archive) is stored or offered, the failure is surfaced to the
\* user exactly once, and the operation is not retried.
C18_FailureIsTerminalAndSurfacedOnce ==
  /\ [](caller = "handleProcess" =>
          /\ pc # "failed" => alerts = <<>>
          /\ pc = "failed" =>
               /\ result = NoResult /\ ~blob.set /\ ~bytes.set
               /\ alerts = (IF isProcessing THEN <<>> ELSE <<error>>))
  /\ [][(caller = "handleProcess" /\ pc = "failed") =>
          /\ pc' = "failed"
          /\ UNCHANGED <<k, zip, zipCalls, doc, inflight, blob, bytes, indicesToKeep>>]_vars

C18_Witness ==
  /\ caller = "handleProcess" /\ op = "split" /\ pc = "failed" /\ ~isProcessing
  /\ Len(zip) = 1 /\ Len(alerts) = 1 /\ result = NoResult

\* the page an output element shows
PageOf(e) == IF op = "compress" THEN e[2] ELSE e.data.pages[1]

Output == IF op = "compress" THEN doc ELSE zip

\* C20: within one invocation of splitPDF, compressPDF or pdfToImages the
\* pages are processed in ascending index order, the render/encode/embed
\* steps of page k+1 start only after every step of page k has completed,
\* and archive entries and output pages are appended in that order.  At most
\* one page is in flight, it is the latest page begun, and the latest output
\* element is of a later page than the one before (every prefix of the
\* output is the output of an earlier state).
C20_PagesInAscendingOrderOneAtATime ==
  (op \in {"split", "compress", "pdfToImages"} /\ pc = "loop") =>
    /\ Cardinality(inflight) <= 1
    /\ \A r \in inflight : r.page = k - 1
    /\ \A x \in 1..Len(Output) : x >= Len(Output) - 1 =>
         /\ x > 1 => PageOf(Output[x - 1]) < PageOf(Output[x])
         /\ op # "split" => PageOf(Output[x]) < k - 1 - Cardinality(inflight)
         /\ op = "split" => Int2Num(PageOf(Output[x])) = indicesToKeep[k - 1 - (Len(Output) - x)]

C20_Witness ==
  /\ op = "compress" /\ pc = "loop" /\ inflight = {[page |-> 2, step |-> "embed"]}
  /\ Len(doc) = 1 /\ doc[1][2] = 0

\* The run of one invocation with nothing else running: its loop from item
\* j on the object d, up to its outcome and returned value
RECURSIVE RunFrom(_, _, _, _)
RunFrom(in, items, j, d) ==
  IF j > Len(items) THEN [pc |-> "done", out |-> d]
  ELSE IF StepOn(in, d, items[j]).failed THEN [pc |-> "failed", out |-> <<>>]
  ELSE RunFrom(in, items, j + 1, StepOn(in, d, items[j]).doc)

RunAlone(in) ==
  IF Prepare(in).failed THEN [pc |-> "failed", out |-> <<>>]
  ELSE RunFrom(in, Prepare(in).items, 1, <<>>)

\* C19: two invocations of service-level transformations that interleave
\* are independent: each builds its own document or archive and returns its
\* own result, and the result of each is the one it gives when run alone.
C19_InterleavedInvocationsIndependent ==
  \A i \in 1..Len(invocations) :
    LET c == invocations[i]
    IN /\ c.pc \in {"done", "failed"} =>
            [pc |-> c.pc, out |-> c.out] = RunAlone(c.in)
       /\ c.pc = "loop" =>
            /\ \A j \in 1..Len(invocations) : (j # i /\ invocations[j].obj # 0) =>
                  invocations[j].obj # c.obj
            /\ RunFrom(c.in, c.items, c.k, objects[c.obj]) = RunAlone(c.in)

\* invocation 2 made its object first and is still in its loop when
\* invocation 1, which made its object later, has returned its pages
C19_Witness ==
  /\ Len(invocations) = 2
  /\ invocations[1].pc = "done" /\ Len(invocations[1].out) >= 2
  /\ invocations[2].pc = "loop" /\ invocations[2].k = 2
  /\ invocations[2].obj < invocations[1].obj
  /\ objects[invocations[2].obj] # <<>>
  /\ invocations[1].in.op # invocations[2].in.op

\* INTEGER of the page-range grammar: one or more decimal digits
IsGrammarInteger(str) == str # <<>> /\ \A c \in Range(str) : IsDigit(c)

\* token := INTEGER | INTEGER "-" INTEGER, white space around it ignored
IsGrammarToken(t) ==
  LET ends == StrSplit(Trim(t), "-")
  IN \/ IsGrammarInteger(Trim(t))
     \/ Len(ends) = 2 /\ IsGrammarInteger(ends[1]) /\ IsGrammarInteger(ends[2])

\* C21: a token that matches neither INTEGER nor INTEGER-INTEGER ("-3",
\* "3-", "1-2-3", an empty token between commas, a non-integer number)
\* contributes no page index: what parsePageRanges returns is what the
\* other tokens of the expression select.
C21_MalformedTokenContributesNothing ==
  (ParseReturned /\ ~Blank(rangeStr)) =>
    \A j \in 1..Len(Parts) :
      (~IsGrammarToken(Parts[j]) /\ OthersOf(j).outcome = "ok") =>
        Range(indicesToKeep) = Range(OthersOf(j).value)

\* C24: parsePageRanges terminates for every expression and every
\* totalPages: the call never stays in its range loop.
C24_ParserTerminates ==
  op = "parse" => pc # "hung"

CompressSucceeded == op = "compress" /\ pc = "done" /\ bytes.set

\* the distance of two doubles of the same exponent, in units of the last
\* place, as far as it is at most LimbBase
UlpsApart(a, b) ==
  IF a.e # b.e \/ a.hi - b.hi > 1 \/ b.hi - a.hi > 1 THEN LimbBase
  ELSE IF (a.hi - b.hi) * LimbBase + (a.lo - b.lo) >= 0
       THEN (a.hi - b.hi) * LimbBase + (a.lo - b.lo)
       ELSE (b.hi - a.hi) * LimbBase + (b.lo - a.lo)

RECURSIVE Pow2(_)
Pow2(n) == IF n = 0 THEN 1 ELSE 2 * Pow2(n - 1)

\* a double that is a whole number
IsWhole(x) ==
  x.e >= 0 \/ (x.e > -26 /\ x.lo % Pow2(-x.e) = 0)
     \/ (x.e <= -26 /\ x.e > -52 /\ x.lo = 0 /\ x.hi % Pow2(-x.e - 26) = 0)

\* C22 as stated: every page of compressPDF's output has exactly the
\* width and height of the input page.
C22_Original ==
  CompressSucceeded =>
    \A x \in 1..Len(bytes.pages) : bytes.pages[x][3] = file.box

\* C22: every page of compressPDF's output has the input page's point
\* dimensions up to the rounding of (size * 1.5) / 1.5 in double
\* arithmetic: each dimension is within one unit in the last place of the
\* original, and equal to it when the original is a whole number of points.
C22_PageSizeKeptUpToRounding ==
  CompressSucceeded =>
    \A x \in 1..Len(bytes.pages) :
      LET size == bytes.pages[x][3]
      IN /\ UlpsApart(size.width, file.box.width) <= 1
         /\ UlpsApart(size.height, file.box.height) <= 1
         /\ IsWhole(file.box.width) => size.width = file.box.width
         /\ IsWhole(file.box.height) => size.height = file.box.height

C22_Witness ==
  /\ CompressSucceeded /\ file.box = CustomBox /\ Len(bytes.pages) = 1
  /\ bytes.pages[1][3].width = Double(104962457, 40265317, -46)
  /\ bytes.pages[1][3].height = Double(104962457, 40265317, -45)

\* the two lists hold the same entries, each as often as in the other
SameEntries(before, after) ==
  /\ Len(before) = Len(after)
  /\ \A i \in 1..Len(before) :
       Cardinality({j \in 1..Len(after) : after[j] = before[i]})
         = Cardinality({j \in 1..Len(before) : before[j] = before[i]})

\* moveFile has nothing to move: the first entry up, the last entry down, or
\* an id that no entry has
NothingToMove(list, id, direction) ==
  \/ FindIndex(list, id) = -1
  \/ direction = "up" /\ FindIndex(list, id) = 0
  \/ direction = "down" /\ FindIndex(list, id) = Len(list) - 1

\* C23: every reorder operation on the file list (moveFile up or down, the
\* drag-reorder of handleDragOver and handleReorder, sort A-Z) yields a
\* permutation of the list it was applied to, with the same entries, none
\* added, lost or duplicated; and moveFile up on the first entry, down on the
\* last entry, or with an unknown id leaves the order unchanged.
C23_ReorderIsPermutation ==
  [][/\ (MoveFile \/ SortAlphabetically \/ DragOver) => SameEntries(files, files')
     /\ \A id \in IdsIn(files) \cup {0}, direction \in {"up", "down"} :
          NothingToMove(files, id, direction) => Moved(files, id, direction) = files]_vars

\* the media type is one the tool takes: image/* for JPG_TO_PDF, PDF for the
\* other tools
Accepted(tool, type) ==
  IF tool.id = "JPG_TO_PDF" THEN StartsWithImage(type) ELSE type = PdfType

\* C25: in every state where the active tool is single-file (SPLIT, COMPRESS,
\* PDF_TO_JPG) the file list holds at most one file, under every
\* interleaving of drops and selections (whose page-count lookups complete
\* later), removals, goBack and openTool.
C25_SingleFileToolHoldsOneFile ==
  (activeTool # NoTool /\ ~activeTool.multiple) => Len(files) <= 1

\* C26: in every state, every file of the file list has a media type that
\* the active tool accepts (PDF for MERGE, SPLIT, COMPRESS and PDF_TO_JPG,
\* image/* for JPG_TO_PDF), also when the user switches tools while the
\* page-count lookup of an earlier drop is pending.
C26_ListHoldsAcceptedTypes ==
  activeTool # NoTool =>
    \A i \in 1..Len(files) : Accepted(activeTool, files[i].type)

\* C27: whenever a result is stored, it was produced by the operation of the
\* tool that is active at that moment: the result of a transformation started
\* under one tool is never displayed after the user has left that tool
\* (goBack, openTool) while it was in flight.
C27_ResultBelongsToActiveTool ==
  result # NoResult => result.tool = activeTool.id

\* C28: every handleProcess invocation that sets isProcessing to true sets it
\* back to false once its transformation has settled, whether it resolved or
\* rejected; and isProcessing is never true with no transformation in flight.
C28_IsProcessingIsReset ==
  /\ [](isProcessing => running # {})
  /\ (\E r \in running : r.state = "resolved") ~> ~isProcessing
  /\ (\E r \in running : r.state = "rejected") ~> ~isProcessing

\* an invocation has failed, its alert is logged, and isProcessing is false
\* again with nothing in flight
C28_Witness ==
  /\ op = "process" /\ Len(alerts) = 1 /\ running = {} /\ ~isProcessing
  /\ result = NoResult /\ FileListShown

\* C29: at most one transformation started from the application is in flight
\* at any time: while one is, isProcessing is true and the process button is
\* disabled, so handleProcess cannot be started again until the running
\* invocation has settled, also after the user went back and opened another
\* tool.
C29_OneTransformationInFlight ==
  /\ Cardinality(running) <= 1
  /\ running # {} => isProcessing /\ ~ButtonEnabled(isProcessing) /\ ~ENABLED ProcessStart

\* a transformation started under one tool is in flight while the process
\* button of another tool, with a file in its list, is shown
C29_Witness ==
  /\ \E r \in running : r.tool # activeTool.id /\ r.state = "pending"
  /\ FileListShown

====
